---------------------------- MODULE Spec2Model ----------------------------
(***************************************************************************)
(* Model of skills/security-scan/scripts/pattern_scanner.py: the CLI       *)
(* (main), the directory walk (scan_directory), the per-file matcher       *)
(* (scan_file) and the two report formatters (format_text, format_json).   *)
(*                                                                         *)
(* Strings are sequences of one-character strings, so that suffix          *)
(* extraction, lower-casing, substring search, stripping, truncation and   *)
(* lexicographic comparison are computed and not assumed.  A regular       *)
(* expression is modelled by a literal that is searched for in the         *)
(* subject (re.search), by a pattern that matches every subject, or by a   *)
(* pattern that does not compile (re.error).                               *)
(***************************************************************************)
EXTENDS Integers, Sequences, FiniteSets, TLC

None == "None"

(***************************************************************************)
(* Bounds of the model.                                                    *)
(***************************************************************************)
\* how many files of ExtraPool the scanned tree may hold besides its fixed part
MaxExtra == 1

\* the number of characters that follow "p=" in the longest line of the tree
LongLine == 205

(***************************************************************************)
(* Characters and strings.                                                 *)
(***************************************************************************)
NL == "\n"
SEP == "/"

\* Unicode code points of the characters the model uses (str comparison
\* in Python compares code points).
CodePoint(c) ==
  CASE c = "\n" -> 10
    [] c = " " -> 32
    [] c = "#" -> 35
    [] c = "(" -> 40
    [] c = "-" -> 45
    [] c = "." -> 46
    [] c = "/" -> 47
    [] c = "0" -> 48
    [] c = "1" -> 49
    [] c = "3" -> 51
    [] c = "4" -> 52
    [] c = "7" -> 55
    [] c = "=" -> 61
    [] c = "B" -> 66
    [] c = "D" -> 68
    [] c = "F" -> 70
    [] c = "M" -> 77
    [] c = "P" -> 80
    [] c = "Y" -> 89
    [] c = "a" -> 97
    [] c = "b" -> 98
    [] c = "c" -> 99
    [] c = "d" -> 100
    [] c = "e" -> 101
    [] c = "f" -> 102
    [] c = "g" -> 103
    [] c = "i" -> 105
    [] c = "j" -> 106
    [] c = "l" -> 108
    [] c = "m" -> 109
    [] c = "n" -> 110
    [] c = "o" -> 111
    [] c = "p" -> 112
    [] c = "r" -> 114
    [] c = "s" -> 115
    [] c = "t" -> 116
    [] c = "v" -> 118
    [] c = "x" -> 120
    [] c = "y" -> 121
    [] c = "z" -> 122
    [] OTHER -> 0

\* str.lower() on one character
LowerChar(c) ==
  CASE c = "B" -> "b"
    [] c = "D" -> "d"
    [] c = "F" -> "f"
    [] c = "M" -> "m"
    [] c = "P" -> "p"
    [] c = "Y" -> "y"
    [] OTHER -> c

\* str.lower()
Lower(s) == [i \in 1..Len(s) |-> LowerChar(s[i])]

\* s < t for Python str (lexicographic on code points, a proper prefix is less)
RECURSIVE StrLess(_, _)
StrLess(s, t) ==
  IF t = <<>> THEN FALSE
  ELSE IF s = <<>> THEN TRUE
  ELSE IF CodePoint(Head(s)) < CodePoint(Head(t)) THEN TRUE
  ELSE IF CodePoint(Head(s)) > CodePoint(Head(t)) THEN FALSE
  ELSE StrLess(Tail(s), Tail(t))

\* s[:n]
Take(s, n) == SubSeq(s, 1, IF Len(s) < n THEN Len(s) ELSE n)

\* s[n:] (0-based n)
Drop(s, n) == SubSeq(s, n + 1, Len(s))

\* the number of positions at which the literal lit occurs in s
Occurrences(lit, s) ==
  Cardinality({i \in 1..(Len(s) - Len(lit) + 1) : SubSeq(s, i, i + Len(lit) - 1) = lit})

IsWhite(c) == c = " " \/ c = "\n"

\* str.strip()
RECURSIVE LStrip(_)
LStrip(s) == IF s # <<>> /\ IsWhite(Head(s)) THEN LStrip(Tail(s)) ELSE s
RECURSIVE RStrip(_)
RStrip(s) ==
  IF s # <<>> /\ IsWhite(s[Len(s)]) THEN RStrip(SubSeq(s, 1, Len(s) - 1)) ELSE s
Strip(s) == RStrip(LStrip(s))

\* the positions of the character sep in s, in ascending order
SepPositions(s, sep) ==
  LET P == {i \in 1..Len(s) : s[i] = sep}
  IN [k \in 1..Cardinality(P) |->
        CHOOSE i \in P : Cardinality({j \in P : j <= i}) = k]

\* str.split(sep): the pieces between the occurrences of the character sep
Split(s, sep) ==
  LET pos == SepPositions(s, sep)
      n == Len(pos)
  IN [k \in 1..(n + 1) |->
        SubSeq(s, IF k = 1 THEN 1 ELSE pos[k - 1] + 1,
                  IF k = n + 1 THEN Len(s) ELSE pos[k] - 1)]

\* sep.join(parts)
RECURSIVE Join(_, _)
Join(parts, sep) ==
  IF parts = <<>> THEN <<>>
  ELSE IF Len(parts) = 1 THEN parts[1]
  ELSE parts[1] \o <<sep>> \o Join(Tail(parts), sep)

(***************************************************************************)
(* Regular expressions.  A pattern is [kind, lit]: "lit" searches for the  *)
(* literal lit, "any" matches every subject (dot-star), "bad" does not     *)
(* compile.                                                                *)
(***************************************************************************)
Lit(l) == [kind |-> "lit", lit |-> l]
\* an absent pattern: None, or the empty string (both are false in a condition)
NoRe == [kind |-> "none", lit |-> <<>>]
AnyRe == [kind |-> "any", lit |-> <<>>]
BadRe == [kind |-> "bad", lit |-> <<>>]

\* "if p:" for a pattern argument
Given(p) == p.kind # "none"

\* re.compile(p) raises re.error
ReError(p) == p.kind = "bad"

\* re.search(p, s) of a pattern that compiles
ReSearch(p, s) ==
  CASE p.kind = "any" -> TRUE
    [] p.kind = "lit" -> Occurrences(p.lit, s) > 0
    [] OTHER -> FALSE

(***************************************************************************)
(* Rule catalog.  A representative part of RULES, in catalog order: the    *)
(* rule ids (without their common prefix SEC-), severities, extension      *)
(* lists and the presence of an exclusion pattern are those of the source; *)
(* every match pattern is abstracted to a two-character literal and every  *)
(* exclusion pattern to a one-character literal.  The empty string is the  *)
(* default exclude_pattern of a Rule.                                      *)
(***************************************************************************)
NoExclude == NoRe

Rule(id, sev, pat, langs, excl) ==
  [rule_id |-> id, severity |-> sev, pattern |-> pat, languages |-> langs,
   exclude_pattern |-> excl]

EXT_PY == <<".", "p", "y">>
EXT_JS == <<".", "j", "s">>
EXT_GO == <<".", "g", "o">>
EXT_PNG == <<".", "p", "n", "g">>
EXT_ENV == <<".", "e", "n", "v">>

RULES ==
  << Rule(<<"0", "0", "1">>, "CRITICAL", Lit(<<"p", "=">>), {}, Lit(<<"x">>)),
     Rule(<<"0", "0", "3">>, "CRITICAL", BadRe, {}, NoExclude),
     Rule(<<"0", "1", "0">>, "HIGH", Lit(<<"m", "(">>), {}, NoExclude),
     Rule(<<"0", "1", "1">>, "MEDIUM", Lit(<<"s", "(">>), {}, NoExclude),
     Rule(<<"0", "3", "0">>, "CRITICAL", Lit(<<"o", "(">>), {EXT_PY}, NoExclude),
     Rule(<<"0", "4", "0">>, "HIGH", Lit(<<"e", "(">>), {EXT_PY, EXT_JS}, Lit(<<"#">>)),
     Rule(<<"0", "7", "0">>, "MEDIUM", Lit(<<"d", "=">>), {EXT_PY, EXT_JS, EXT_ENV}, NoExclude),
     Rule(<<"0", "7", "1">>, "LOW", Lit(<<"t", "(">>), {EXT_PY, EXT_JS}, NoExclude) >>

LANG_EXTENSIONS(lang) ==
  CASE lang = "python" -> {EXT_PY}
    [] lang = "go" -> {EXT_GO}
    [] OTHER -> {}

BINARY_EXTENSIONS == {EXT_PNG}

N_vendor == <<"v", "e", "n", "d", "o", "r">>
N_bin == <<"b", "i", "n">>
N_git == <<".", "g", "i", "t">>
SKIP_DIRS == {N_vendor, N_bin, N_git}

SEVERITIES == <<"CRITICAL", "HIGH", "MEDIUM", "LOW", "INFO">>

SEVERITY_ORDER(sev) ==
  CASE sev = "CRITICAL" -> 0
    [] sev = "HIGH" -> 1
    [] sev = "MEDIUM" -> 2
    [] sev = "LOW" -> 3
    [] sev = "INFO" -> 4
    [] OTHER -> 5

(***************************************************************************)
(* The file system under scan.  A path is the sequence of the names from   *)
(* the file system root; a file has a content and may be unreadable.       *)
(***************************************************************************)
N_r == <<"r">>
N_lib == <<"l", "i", "b">>
N_e == <<"e">>
N_nope == <<"n", "o", "p", "e">>
F_a_py == <<"a", ".", "p", "y">>
F_b_PY == <<"b", ".", "P", "Y">>
F_c_md == <<"c", ".", "m", "d">>
F_env == <<".", "e", "n", "v">>
F_x_png == <<"x", ".", "p", "n", "g">>
F_u_py == <<"u", ".", "p", "y">>
F_t_py == <<"t", ".", "p", "y">>
F_v_py == <<"v", ".", "p", "y">>
F_g_py == <<"g", ".", "p", "y">>
F_d_js == <<"d", ".", "j", "s">>

L_pw == <<"p", "=", "s">>
L_pwx == <<"p", "=", "x">>
L_os2 == <<" ", "o", "(", " ", "o", "(">>
L_os == <<"o", "(">>
L_evx == <<"e", "(", " ", "#">>
L_ev == <<"e", "(">>
L_md == <<"m", "(">>
L_tr == <<"t", "(">>
L_dbg == <<"d", "=">>

\* a line of more than 200 characters between its leading and trailing blanks
L_long == <<" ", "p", "=">> \o [k \in 1..LongLine |-> "s"] \o <<" ">>

Text(lines) == Join(lines, NL)

File(path, content, readable) ==
  [path |-> path, content |-> content, readable |-> readable]

Dirs ==
  { <<N_r>>, <<N_r, N_lib>>, <<N_r, N_lib, N_bin>>, <<N_r, N_vendor>>,
    <<N_r, N_git>>, <<N_r, N_e>> }

BaseFiles ==
  { File(<<N_r, F_a_py>>, Text(<<L_pw, <<>>, L_pwx, L_os2, L_evx, L_ev, <<>> >>), TRUE),
    File(<<N_r, F_b_PY>>, Text(<<L_os, L_md>>), TRUE),
    File(<<N_r, F_c_md>>, Text(<<L_os, L_pw, L_ev>>), TRUE),
    File(<<N_r, F_x_png>>, Text(<<L_pw>>), TRUE),
    File(<<N_r, N_lib, F_a_py>>, Text(<<L_pw, L_tr>>), TRUE),
    File(<<N_r, N_lib, F_u_py>>, Text(<<L_pw>>), FALSE),
    File(<<N_r, N_lib, N_bin, F_t_py>>, Text(<<L_pw>>), TRUE),
    File(<<N_r, N_vendor, F_v_py>>, Text(<<L_pw, L_os, L_long>>), TRUE),
    File(<<N_r, N_git, F_g_py>>, Text(<<L_pw>>), TRUE) }

\* files of which the tree may hold up to MaxExtra
ExtraPool ==
  { File(<<N_r, F_env>>, Text(<<L_dbg, L_pw>>), TRUE),
    File(<<N_r, N_lib, N_vendor>>, Text(<<L_md, L_md>>), TRUE),
    File(<<N_r, N_lib, F_d_js>>, Text(<<L_ev, L_tr, L_os>>), TRUE) }

VARIABLES
  pc,               \* where main() is: "start", "walk", "format", "exited"
  target,           \* args.target, resolved
  lang_filter,      \* args.lang
  exclude_pattern,  \* args.exclude
  output,           \* args.output
  files,            \* the files of the tree
  rules,            \* the rule list handed to scan_file
  stack,            \* os.walk: the directories still to list
  dirpath,          \* os.walk: the directory being listed
  filenames,        \* os.walk: the names of dirpath's files not yet visited
  all_findings,     \* scan_directory's result list
  readLog,          \* the paths read_text was called on, in the order of the calls
  walked,           \* the directories os.walk has listed
  stdout,           \* <<>>, or <<report>> once printed
  stderr,           \* <<>>, or <<message>>
  exitCode          \* the process's exit code, -1 while it runs

\* the state of the resume downloader (async_resume_downloader.py)
VARIABLES
  dpc,              \* where download_resumes is: "idle", "start", "gather",
                    \* "returned", "raised"
  urls,             \* download_resumes' argument urls
  max_concurrent,   \* download_resumes' argument max_concurrent
  semaphore,        \* the asyncio.Semaphore: its value and its queue of waiters
  tasks,            \* tasks[i]: the download_one task of urls[i]
  dest_files,       \* dest_files[i]: what is on disk at the dest of task i
  results           \* <<>>, or the list download_resumes returned

downloader == << dpc, urls, max_concurrent, semaphore, tasks, dest_files, results >>

\* the state of the resume scorer (resume_scorer.py)
VARIABLES
  spc,              \* where the scorer is: "idle", "years", "years_done", "start",
                    \* "list", "loop", "done"
  current_year,     \* datetime.now().year
  text,             \* extract_years_of_experience's argument
  years,            \* its return value: <<>> for None, <<n>> for n
  resume_dir,       \* the directory: the extracted text of each of its files
  jd_text,          \* the text of the job description file
  jd,               \* parse_job_description's result
  pdf_files,        \* process_resumes' sorted list of PDF file names
  nfile,            \* the number of pdf_files the loop has been through
  warnings,         \* the file names of the WARNING lines on stderr
  candidates,       \* process_resumes' list candidates
  excluded,         \* process_resumes' list excluded
  output_json       \* <<>>, or <<output>> once written to output_path

scorer ==
  << spc, current_year, text, years, resume_dir, jd_text, jd, pdf_files, nfile,
     warnings, candidates, excluded, output_json >>

vars ==
  << pc, target, lang_filter, exclude_pattern, output, files, rules, stack, dirpath,
     filenames, all_findings, readLog, walked, stdout, stderr, exitCode, downloader,
     scorer >>

\* what the scan never assigns: its arguments, and the state of the downloader
\* and of the scorer
args ==
  << target, lang_filter, exclude_pattern, output, files, rules, downloader, scorer >>

\* parse_job_description's result before the job description is parsed
NoJd == [min_years_experience |-> <<>>, max_years_experience |-> <<>>]

\* the scorer is not running
ScorerIdle ==
  /\ spc = "idle"
  /\ current_year = 0
  /\ text = <<>>
  /\ years = <<>>
  /\ resume_dir = <<>>
  /\ jd_text = <<>>
  /\ jd = NoJd
  /\ pdf_files = <<>>
  /\ nfile = 0
  /\ warnings = <<>>
  /\ candidates = <<>>
  /\ excluded = <<>>
  /\ output_json = <<>>

\* the downloader is not running
DownloaderIdle ==
  /\ dpc = "idle"
  /\ urls = <<>>
  /\ max_concurrent = 0
  /\ semaphore = [value |-> 0, waiters |-> <<>>]
  /\ tasks = <<>>
  /\ dest_files = <<>>
  /\ results = <<>>

IsDir(p) == p \in Dirs
IsFile(p) == \E f \in files : f.path = p
Exists(p) == IsDir(p) \/ IsFile(p)
FileAt(p) == CHOOSE f \in files : f.path = p

Parent(p) == SubSeq(p, 1, Len(p) - 1)
Name(p) == p[Len(p)]

\* the names os.walk reports for directory d
SubDirNames(d) == {Name(p) : p \in {q \in Dirs : Len(q) > 1 /\ Parent(q) = d}}
FileNames(d) == {Name(f.path) : f \in {g \in files : Parent(g.path) = d}}

\* str(path) of an absolute path
AbsStr(p) == <<SEP>> \o Join(p, SEP)

\* filepath.relative_to(target_path)
RelativeTo(p, root) == Drop(p, Len(root))

\* str(rel_path)
RelStr(rel) == IF rel = <<>> THEN <<".">> ELSE Join(rel, SEP)

\* PurePath.suffix of the final component
Suffix(p) ==
  LET name == Name(p)
      dots == {i \in 1..Len(name) : name[i] = "."}
      i == IF dots = {} THEN 0 ELSE CHOOSE k \in dots : \A j \in dots : j <= k
  IN IF 1 < i /\ i < Len(name) THEN SubSeq(name, i, Len(name)) ELSE <<>>

(***************************************************************************)
(* Scanner logic.                                                          *)
(***************************************************************************)
\* should_skip_dir without the test of SKIP_DIRS
should_skip_dir_HiddenOnly(dirname) == dirname # <<>> /\ Head(dirname) = "."

should_skip_dir(dirname) ==
  dirname \in SKIP_DIRS \/ (dirname # <<>> /\ Head(dirname) = ".")

\* should_scan_file without the test of BINARY_EXTENSIONS
should_scan_file_NoBinaryCheck(filepath, lang) ==
  LET ext == Lower(Suffix(filepath))
  IN IF lang # None THEN ext \in LANG_EXTENSIONS(lang)
     ELSE TRUE

should_scan_file(filepath, lang) ==
  LET ext == Lower(Suffix(filepath))
  IN IF ext \in BINARY_EXTENSIONS THEN FALSE
     ELSE IF lang # None THEN ext \in LANG_EXTENSIONS(lang)
     ELSE TRUE

\* rule_applies without .lower()
rule_applies_CaseSensitive(rule, filepath) ==
  IF rule.languages = {} THEN TRUE
  ELSE Suffix(filepath) \in rule.languages

rule_applies(rule, filepath) ==
  IF rule.languages = {} THEN TRUE
  ELSE Lower(Suffix(filepath)) \in rule.languages

\* the Finding with the whole stripped line as matched_text (no [:200])
Finding_NoTruncate(rule, file, i, line) ==
  [rule_id |-> rule.rule_id, severity |-> rule.severity, file |-> file,
   line |-> i, matched_text |-> Strip(line)]

Finding(rule, file, i, line) ==
  [rule_id |-> rule.rule_id, severity |-> rule.severity, file |-> file,
   line |-> i, matched_text |-> Take(Strip(line), 200)]

\* whether the exclusion pattern suppresses the line: a pattern that does not
\* compile raises re.error, which is passed over
Excluded(rule, line) ==
  /\ Given(rule.exclude_pattern)
  /\ ~ReError(rule.exclude_pattern)
  /\ ReSearch(rule.exclude_pattern, line)

\* the loop body without the check of the exclusion pattern
LineFindings_NoExclusion(rule, file, i, line) ==
  IF ReSearch(rule.pattern, line)
  THEN <<Finding(rule, file, i, line)>>
  ELSE <<>>

\* the loop body with a finding for every match (finditer in place of search)
LineFindings_PerMatch(rule, file, i, line) ==
  IF ReSearch(rule.pattern, line) /\ ~Excluded(rule, line)
  THEN [k \in 1..Occurrences(rule.pattern.lit, line) |-> Finding(rule, file, i, line)]
  ELSE <<>>

\* the loop body with line numbers counted from 0 (enumerate without start=1)
LineFindings_ZeroBased(rule, file, i, line) ==
  IF ReSearch(rule.pattern, line) /\ ~Excluded(rule, line)
  THEN <<Finding(rule, file, i - 1, line)>>
  ELSE <<>>

\* the body of scan_file's loop over the lines: what line i appends
LineFindings(rule, file, i, line) ==
  IF ReSearch(rule.pattern, line) /\ ~Excluded(rule, line)
  THEN <<Finding(rule, file, i, line)>>
  ELSE <<>>

RECURSIVE ScanLines(_, _, _, _)
ScanLines(rule, file, lines, i) ==
  IF i > Len(lines) THEN <<>>
  ELSE LineFindings(rule, file, i, lines[i]) \o ScanLines(rule, file, lines, i + 1)

\* the body of scan_file's loop over the rules
RuleFindings(rule, filepath, lines) ==
  IF ~rule_applies(rule, filepath) THEN <<>>
  ELSE IF ReError(rule.pattern) THEN <<>>
  ELSE ScanLines(rule, AbsStr(filepath), lines, 1)

\* the loop over the rules ended by the first pattern that does not compile
RECURSIVE ScanRules_StopAtError(_, _, _)
ScanRules_StopAtError(rule_list, filepath, lines) ==
  IF rule_list = <<>> THEN <<>>
  ELSE IF ReError(Head(rule_list).pattern) THEN <<>>
  ELSE RuleFindings(Head(rule_list), filepath, lines)
         \o ScanRules_StopAtError(Tail(rule_list), filepath, lines)

RECURSIVE ScanRules(_, _, _)
ScanRules(rule_list, filepath, lines) ==
  IF rule_list = <<>> THEN <<>>
  ELSE RuleFindings(Head(rule_list), filepath, lines)
         \o ScanRules(Tail(rule_list), filepath, lines)

\* read_text raises PermissionError or OSError
ReadFails(filepath) == ~FileAt(filepath).readable

\* scan_file with a finding that stands for the file that could not be read
scan_file_Placeholder(filepath, rule_list) ==
  IF ReadFails(filepath)
  THEN << [rule_id |-> <<"E", "R", "R">>, severity |-> "INFO",
           file |-> AbsStr(filepath), line |-> 0, matched_text |-> <<>>] >>
  ELSE ScanRules(rule_list, filepath, Split(FileAt(filepath).content, NL))

scan_file(filepath, rule_list) ==
  IF ReadFails(filepath) THEN <<>>
  ELSE ScanRules(rule_list, filepath, Split(FileAt(filepath).content, NL))

\* scan_directory's rewrite of the file field of one file's findings
Relativize(findings, rel) ==
  [k \in 1..Len(findings) |-> [findings[k] EXCEPT !.file = RelStr(rel)]]

\* --exclude searched in the file's name in place of its relative path
ExcludeMatches_NameOnly(rel) ==
  Given(exclude_pattern) /\ ReSearch(exclude_pattern, rel[Len(rel)])

\* whether --exclude drops the file
ExcludeMatches(rel) ==
  Given(exclude_pattern) /\ ReSearch(exclude_pattern, RelStr(rel))

(***************************************************************************)
(* Output formatting.                                                      *)
(***************************************************************************)
\* the key without its file component
KeyLess_NoFile(f, g) ==
  LET a == SEVERITY_ORDER(f.severity)
      b == SEVERITY_ORDER(g.severity)
  IN \/ a < b
     \/ a = b /\ StrLess(f.rule_id, g.rule_id)
     \/ a = b /\ f.rule_id = g.rule_id /\ f.line < g.line

\* the sort key of a finding is less than that of another
KeyLess(f, g) ==
  LET a == SEVERITY_ORDER(f.severity)
      b == SEVERITY_ORDER(g.severity)
  IN \/ a < b
     \/ a = b /\ StrLess(f.rule_id, g.rule_id)
     \/ a = b /\ f.rule_id = g.rule_id /\ StrLess(f.file, g.file)
     \/ a = b /\ f.rule_id = g.rule_id /\ f.file = g.file /\ f.line < g.line

\* list.sort(key=...) is stable: an element goes after the elements whose key
\* is not greater
RECURSIVE InsertSorted(_, _)
InsertSorted(sorted, f) ==
  IF sorted = <<>> THEN <<f>>
  ELSE IF KeyLess(f, Head(sorted)) THEN <<f>> \o sorted
  ELSE <<Head(sorted)>> \o InsertSorted(Tail(sorted), f)

RECURSIVE SortFindings(_)
SortFindings(findings) ==
  IF findings = <<>> THEN <<>>
  ELSE InsertSorted(SortFindings(SubSeq(findings, 1, Len(findings) - 1)),
                    findings[Len(findings)])

CountSev(findings, sev) ==
  Cardinality({k \in 1..Len(findings) : findings[k].severity = sev})

NoF == [rule_id |-> <<>>, severity |-> "", file |-> <<>>, line |-> 0,
        matched_text |-> <<>>]

\* the lines of format_text with a heading before every finding
RECURSIVE TextBody_HeadingEach(_, _)
TextBody_HeadingEach(findings, current_severity) ==
  IF findings = <<>> THEN <<>>
  ELSE LET f == Head(findings)
       IN <<[t |-> "heading", severity |-> f.severity, f |-> NoF]>>
          \o <<[t |-> "finding", severity |-> f.severity, f |-> f]>>
          \o TextBody_HeadingEach(Tail(findings), f.severity)

\* the lines format_text appends for the findings, a heading at each change of
\* severity
RECURSIVE TextBody(_, _)
TextBody(findings, current_severity) ==
  IF findings = <<>> THEN <<>>
  ELSE LET f == Head(findings)
       IN (IF f.severity # current_severity
           THEN <<[t |-> "heading", severity |-> f.severity, f |-> NoF]>>
           ELSE <<>>)
          \o <<[t |-> "finding", severity |-> f.severity, f |-> f]>>
          \o TextBody(Tail(findings), f.severity)

\* format_text without its findings.sort(...) line
format_text_NoSort(findings) ==
  IF findings = <<>>
  THEN [mode |-> "text", nofindings |-> TRUE, total |-> 0,
        summary |-> <<>>, body |-> <<>>]
  ELSE [mode |-> "text", nofindings |-> FALSE, total |-> Len(findings),
        summary |-> SelectSeq([k \in 1..5 |->
                                 <<SEVERITIES[k], CountSev(findings, SEVERITIES[k])>>],
                              LAMBDA c : c[2] > 0),
        body |-> TextBody(findings, None)]

format_text(findings) ==
  IF findings = <<>>
  THEN [mode |-> "text", nofindings |-> TRUE, total |-> 0,
        summary |-> <<>>, body |-> <<>>]
  ELSE LET sorted == SortFindings(findings)
       IN [mode |-> "text", nofindings |-> FALSE, total |-> Len(sorted),
           summary |-> SelectSeq([k \in 1..5 |->
                                    <<SEVERITIES[k], CountSev(sorted, SEVERITIES[k])>>],
                                 LAMBDA c : c[2] > 0),
           body |-> TextBody(sorted, None)]

\* format_json with a counts entry only for the severities that occur
format_json_NoZeroFill(findings) ==
  LET sorted == SortFindings(findings)
  IN [mode |-> "json", total |-> Len(sorted),
      counts |-> [sev \in {sorted[k].severity : k \in 1..Len(sorted)} |->
                    CountSev(sorted, sev)],
      findings |-> sorted]

format_json(findings) ==
  LET sorted == SortFindings(findings)
  IN [mode |-> "json", total |-> Len(sorted),
      counts |-> [sev \in {SEVERITIES[k] : k \in 1..5} |-> CountSev(sorted, sev)],
      findings |-> sorted]

(***************************************************************************)
(* The program: main() calls scan_directory and prints the report.         *)
(***************************************************************************)
Targets ==
  { <<N_r>>, <<N_r, F_a_py>>, <<N_r, N_lib>>, <<N_r, N_lib, F_u_py>>,
    <<N_r, N_vendor>>, <<N_r, N_e>>, <<N_r, N_nope>> }

LangArgs == {None, "python", "go"}

ExcludeArgs == {NoRe, Lit(N_lib), Lit(<<".", "p", "y">>), AnyRe, BadRe}

OutputArgs == {"text", "json"}

Init ==
  /\ pc = "start"
  /\ target \in Targets
  /\ lang_filter \in LangArgs
  /\ exclude_pattern \in ExcludeArgs
  /\ output \in OutputArgs
  /\ \E extra \in SUBSET ExtraPool :
       /\ Cardinality(extra) <= MaxExtra
       /\ files = BaseFiles \cup extra
  /\ rules = RULES
  /\ stack = <<>>
  /\ dirpath = <<>>
  /\ filenames = {}
  /\ all_findings = <<>>
  /\ readLog = <<>>
  /\ walked = {}
  /\ stdout = <<>>
  /\ stderr = <<>>
  /\ exitCode = -1
  /\ DownloaderIdle
  /\ ScorerIdle

\* the error is printed and sys.exit(1) is missing: the walk goes on
TargetMissing_NoExit ==
  /\ pc = "start"
  /\ ~Exists(target)
  /\ stderr' = <<"Error: target does not exist.">>
  /\ stack' = <<target>>
  /\ pc' = "walk"
  /\ UNCHANGED << args, dirpath, filenames, all_findings, readLog, walked, stdout, exitCode >>

\* scan_directory: the target does not exist; sys.exit(1)
TargetMissing ==
  /\ pc = "start"
  /\ ~Exists(target)
  /\ stderr' = <<"Error: target does not exist.">>
  /\ exitCode' = 1
  /\ pc' = "exited"
  /\ UNCHANGED << args, stack, dirpath, filenames, all_findings, readLog, walked, stdout >>

\* scan_directory: re.compile(exclude_pattern) raises re.error, which nothing
\* catches: the interpreter prints the traceback and exits with code 1
ExcludeCompileError ==
  /\ pc = "start"
  /\ Exists(target)
  /\ Given(exclude_pattern) /\ ReError(exclude_pattern)
  /\ stderr' = <<"Traceback: re.error">>
  /\ exitCode' = 1
  /\ pc' = "exited"
  /\ UNCHANGED << args, stack, dirpath, filenames, all_findings, readLog, walked, stdout >>

\* scan_directory: the target is a file; return scan_file(target_path, RULES)
ScanSingleFile ==
  /\ pc = "start"
  /\ Exists(target)
  /\ ~(Given(exclude_pattern) /\ ReError(exclude_pattern))
  /\ IsFile(target)
  /\ all_findings' = scan_file(target, rules)
  /\ readLog' = Append(readLog, target)
  /\ pc' = "format"
  /\ UNCHANGED << args, stack, dirpath, filenames, walked, stdout, stderr, exitCode >>

\* scan_directory: the target is a directory; os.walk(target_path) begins
WalkBegin ==
  /\ pc = "start"
  /\ Exists(target)
  /\ ~(Given(exclude_pattern) /\ ReError(exclude_pattern))
  /\ ~IsFile(target)
  /\ stack' = <<target>>
  /\ pc' = "walk"
  /\ UNCHANGED << args, dirpath, filenames, all_findings, readLog, walked, stdout, stderr, exitCode >>

\* the directory names the walk keeps: dirnames[:] = [d for d in dirnames if ...]
KeptDirNames(d) == {n \in SubDirNames(d) : ~should_skip_dir(n)}

\* the sequences that hold each element of the set S once
Orders(S) ==
  {o \in [1..Cardinality(S) -> S] : \A i, j \in 1..Cardinality(S) : o[i] = o[j] => i = j}

\* os.walk yields the next directory, its kept subdirectories are pushed in
\* the order the file system listed them
NextDir ==
  /\ pc = "walk"
  /\ filenames = {}
  /\ stack # <<>>
  /\ LET d == Head(stack)
     IN /\ dirpath' = d
        /\ walked' = walked \cup {d}
        /\ filenames' = FileNames(d)
        /\ \E o \in Orders(KeptDirNames(d)) :
             stack' = [k \in 1..Len(o) |-> Append(d, o[k])] \o Tail(stack)
  /\ UNCHANGED << pc, args, all_findings, readLog, stdout, stderr, exitCode >>

\* one iteration of "for filename in filenames", in the order the file system
\* listed the names
VisitFile ==
  /\ pc = "walk"
  /\ \E filename \in filenames :
       LET filepath == Append(dirpath, filename)
           rel_path == RelativeTo(filepath, target)
       IN /\ filenames' = filenames \ {filename}
          /\ IF ExcludeMatches(rel_path)
             THEN UNCHANGED << all_findings, readLog >>
             ELSE IF ~should_scan_file(filepath, lang_filter)
             THEN UNCHANGED << all_findings, readLog >>
             ELSE /\ all_findings' =
                       all_findings \o Relativize(scan_file(filepath, rules), rel_path)
                  /\ readLog' = Append(readLog, filepath)
  /\ UNCHANGED << pc, args, stack, dirpath, walked, stdout, stderr, exitCode >>

\* os.walk is exhausted: return all_findings
WalkEnd ==
  /\ pc = "walk"
  /\ filenames = {}
  /\ stack = <<>>
  /\ pc' = "format"
  /\ UNCHANGED << args, stack, dirpath, filenames, all_findings, readLog, walked, stdout, stderr, exitCode >>

\* main: print(format_json(findings)) or print(format_text(findings)); the
\* formatter sorts the list in place
PrintReport ==
  /\ pc = "format"
  /\ stdout' = <<IF output = "json" THEN format_json(all_findings)
                 ELSE format_text(all_findings)>>
  /\ all_findings' = SortFindings(all_findings)
  /\ exitCode' = 0
  /\ pc' = "exited"
  /\ UNCHANGED << args, stack, dirpath, filenames, readLog, walked, stderr >>

Next ==
  \/ TargetMissing
  \/ ExcludeCompileError
  \/ ScanSingleFile
  \/ WalkBegin
  \/ NextDir
  \/ VisitFile
  \/ WalkEnd
  \/ PrintReport

Spec == Init /\ [][Next]_vars

(***************************************************************************)
(* The scan under an edited catalog.  scan_file takes the rule list as a   *)
(* parameter and a Rule's exclude_pattern is any string: the lists below   *)
(* are RULES and RULES with the exclusion pattern of one rule replaced by  *)
(* a string that does not compile, for a rule of every language (001) and  *)
(* for a rule of two extensions (040).                                     *)
(***************************************************************************)
RuleLists ==
  { RULES,
    [RULES EXCEPT ![1] = Rule(@.rule_id, @.severity, @.pattern, @.languages, BadRe)],
    [RULES EXCEPT ![6] = Rule(@.rule_id, @.severity, @.pattern, @.languages, BadRe)] }

InitRules ==
  /\ pc = "start"
  /\ target \in Targets
  /\ lang_filter = None
  /\ exclude_pattern \in {NoRe, BadRe}
  /\ output \in OutputArgs
  /\ \E extra \in SUBSET ExtraPool :
       /\ Cardinality(extra) <= MaxExtra
       /\ files = BaseFiles \cup extra
  /\ rules \in RuleLists
  /\ stack = <<>>
  /\ dirpath = <<>>
  /\ filenames = {}
  /\ all_findings = <<>>
  /\ readLog = <<>>
  /\ walked = {}
  /\ stdout = <<>>
  /\ stderr = <<>>
  /\ exitCode = -1
  /\ DownloaderIdle
  /\ ScorerIdle

SpecRules == InitRules /\ [][Next]_vars

(***************************************************************************)
(* The resume downloader.  download_resumes creates one download_one task  *)
(* per URL and awaits them with asyncio.gather; a task holds the semaphore *)
(* from its first attempt to its return, back-off sleeps included.  An     *)
(* attempt runs _download_blocking in a thread and ends in one of four     *)
(* ways: the file is a PDF; the file is not a PDF (ValueError); the        *)
(* download raises HTTPError, URLError, ValueError or OSError; the         *)
(* download raises an exception of another class (http.client.InvalidURL   *)
(* and the other HTTPException classes are not OSError), which the except  *)
(* clause of download_one does not catch.                                  *)
(***************************************************************************)
MaxUrls == 2

MaxConcurrent == 2

MAX_RETRIES == 3

UrlPool == {"u1", "u2"}

\* the argument lists of download_resumes: up to MaxUrls URLs, repeats allowed
UrlLists == UNION {[1..n -> UrlPool] : n \in 0..MaxUrls}

\* the destination of task i: download_resumes gives every task a name no
\* other task has
Dest(i) == "resume_" \o ToString(i)

\* the scanner is not running
ScannerIdle ==
  /\ pc = "idle"
  /\ target = <<>>
  /\ lang_filter = None
  /\ exclude_pattern = NoRe
  /\ output = "text"
  /\ files = {}
  /\ rules = <<>>
  /\ stack = <<>>
  /\ dirpath = <<>>
  /\ filenames = {}
  /\ all_findings = <<>>
  /\ readLog = <<>>
  /\ walked = {}
  /\ stdout = <<>>
  /\ stderr = <<>>
  /\ exitCode = -1

InitDownload ==
  /\ ScannerIdle
  /\ ScorerIdle
  /\ dpc = "start"
  /\ urls \in UrlLists
  /\ max_concurrent \in 0..MaxConcurrent
  /\ semaphore = [value |-> 0, waiters |-> <<>>]
  /\ tasks = <<>>
  /\ dest_files = <<>>
  /\ results = <<>>

scanner ==
  << pc, target, lang_filter, exclude_pattern, output, files, rules, stack, dirpath,
     filenames, all_findings, readLog, walked, stdout, stderr, exitCode >>

\* download_one's result dict as it is created (without size_bytes and
\* elapsed)
NewResult(i) ==
  [url |-> urls[i], path |-> Dest(i), success |-> FALSE, error |-> None]

\* the result of a task whose coroutine has not started
NoResult == [url |-> None, path |-> None, success |-> FALSE, error |-> None]

\* a task before its coroutine runs: attempt is the loop variable, failed the
\* number of attempts that ended in the except clause, sleeps the number of
\* back-off waits
NewTask ==
  [pc |-> "new", attempt |-> 0, failed |-> 0, sleeps |-> 0, result |-> NoResult]

MAX_FILE_SIZE == 50000000

CHUNK_SIZE == 65536

\* what is on disk at a destination path: nothing, or a file of size bytes
\* that begins with PDF_MAGIC or does not
Absent == [exists |-> FALSE, magic |-> FALSE, size |-> 0]

OnDisk(magic, size) == [exists |-> TRUE, magic |-> magic /\ size >= 4, size |-> size]

\* what the server and the network do in one attempt: fault says where an
\* exception arises and class whether the except clause of download_one names
\* it; declared is the Content-Length header (-1 when absent); magic and size
\* describe the body
Response(fault, class, declared, magic, size) ==
  [fault |-> fault, class |-> class, declared |-> declared, magic |-> magic,
   size |-> size]

Responses ==
  { Response("none", "none", -1, TRUE, 11),
    Response("none", "none", MAX_FILE_SIZE, TRUE, MAX_FILE_SIZE),
    Response("none", "none", MAX_FILE_SIZE + 1, TRUE, MAX_FILE_SIZE + 1),
    Response("none", "none", -1, TRUE, MAX_FILE_SIZE + 1),
    Response("none", "none", 11, FALSE, 11),
    Response("none", "none", -1, FALSE, 0),
    Response("urlopen", "handled", -1, FALSE, 0),
    Response("urlopen", "unhandled", -1, FALSE, 0),
    Response("read", "handled", -1, TRUE, CHUNK_SIZE),
    Response("read", "unhandled", -1, TRUE, CHUNK_SIZE) }

\* _download_blocking: the exception it ends with ("none": it returns), the
\* message (one stands for all the texts of str(exc)), and the file it leaves
\* at dest.  The loop writes a chunk only
\* while the bytes read so far do not exceed MAX_FILE_SIZE
download_blocking(resp, file) ==
  IF resp.fault = "urlopen"
  THEN [raised |-> resp.class, error |-> "download error", file |-> file]
  ELSE IF resp.declared > MAX_FILE_SIZE
  THEN [raised |-> "handled", error |-> "download error", file |-> file]
  ELSE IF resp.fault = "read"
  THEN [raised |-> resp.class, error |-> "download error",
        file |-> OnDisk(resp.magic, resp.size)]
  ELSE IF resp.size > MAX_FILE_SIZE
  THEN [raised |-> "handled", error |-> "download error",
        file |-> OnDisk(resp.magic, (MAX_FILE_SIZE \div CHUNK_SIZE) * CHUNK_SIZE)]
  ELSE [raised |-> "none", error |-> None, file |-> OnDisk(resp.magic, resp.size)]

\* validate_pdf(filepath)
validate_pdf(file) == file.exists /\ file.magic

\* download_resumes up to the await of gather: the semaphore, one task per
\* URL; a destination may hold a file of an earlier run
CreateTasks ==
  /\ dpc = "start"
  /\ semaphore' = [value |-> max_concurrent, waiters |-> <<>>]
  /\ tasks' = [i \in 1..Len(urls) |-> NewTask]
  /\ dest_files' \in [1..Len(urls) -> {Absent, OnDisk(TRUE, 11)}]
  /\ dpc' = "gather"
  /\ UNCHANGED << scanner, scorer, urls, max_concurrent, results >>

\* Semaphore.release(): the permit goes to the first waiter, which enters its
\* first attempt, or back to the value
Released(sem, ts) ==
  IF sem.waiters = <<>>
  THEN [sem |-> [sem EXCEPT !.value = @ + 1], ts |-> ts]
  ELSE [sem |-> [sem EXCEPT !.waiters = Tail(@)],
        ts |-> [ts EXCEPT ![Head(sem.waiters)].pc = "downloading",
                          ![Head(sem.waiters)].attempt = 1]]

\* download_one starts: the result dict, then "async with semaphore" acquires
\* a permit or queues the task
Enter(i) ==
  /\ dpc = "gather"
  /\ tasks[i].pc = "new"
  /\ IF semaphore.value > 0 /\ semaphore.waiters = <<>>
     THEN /\ semaphore' = [semaphore EXCEPT !.value = @ - 1]
          /\ tasks' = [tasks EXCEPT ![i].pc = "downloading", ![i].attempt = 1,
                                    ![i].result = NewResult(i)]
     ELSE /\ semaphore' = [semaphore EXCEPT !.waiters = Append(@, i)]
          /\ tasks' = [tasks EXCEPT ![i].pc = "waiting", ![i].result = NewResult(i)]
  /\ UNCHANGED << scanner, scorer, dpc, urls, max_concurrent, dest_files, results >>

\* the attempt downloads a file that validate_pdf accepts:
\* result.update(success=True, ...), return result, the semaphore is released
AttemptSucceeds(i) ==
  /\ dpc = "gather"
  /\ tasks[i].pc = "downloading"
  /\ \E resp \in Responses :
       LET d == download_blocking(resp, dest_files[i])
       IN /\ d.raised = "none"
          /\ validate_pdf(d.file)
          /\ dest_files' = [dest_files EXCEPT ![i] = d.file]
  /\ LET done == [tasks EXCEPT ![i].pc = "done", ![i].result.success = TRUE]
         r == Released(semaphore, done)
     IN semaphore' = r.sem /\ tasks' = r.ts
  /\ UNCHANGED << scanner, scorer, dpc, urls, max_concurrent, results >>

\* what the except clause records for an attempt that fails
Failure(resp, file) ==
  LET d == download_blocking(resp, file)
  IN IF d.raised = "none" THEN "Downloaded file is not a valid PDF" ELSE d.error

\* a failed attempt that ends download_one at once, whatever its number
AttemptFails_NoRetry(i) ==
  /\ dpc = "gather"
  /\ tasks[i].pc = "downloading"
  /\ dest_files' = [dest_files EXCEPT ![i] = Absent]
  /\ \E resp \in Responses :
       LET d == download_blocking(resp, dest_files[i])
       IN /\ d.raised = "handled" \/ (d.raised = "none" /\ ~validate_pdf(d.file))
          /\ LET done == [tasks EXCEPT ![i].pc = "done", ![i].failed = @ + 1,
                                       ![i].result.error = Failure(resp, dest_files[i])]
                 r == Released(semaphore, done)
             IN semaphore' = r.sem /\ tasks' = r.ts
  /\ UNCHANGED << scanner, scorer, dpc, urls, max_concurrent, results >>

\* a failed attempt whose except clause leaves the file where it is
AttemptFails_NoUnlink(i) ==
  /\ dpc = "gather"
  /\ tasks[i].pc = "downloading"
  /\ \E resp \in Responses :
       LET d == download_blocking(resp, dest_files[i])
       IN /\ d.raised = "handled" \/ (d.raised = "none" /\ ~validate_pdf(d.file))
          /\ dest_files' = [dest_files EXCEPT ![i] = IF d.raised = "none" THEN Absent
                                                     ELSE d.file]
          /\ IF tasks[i].attempt < MAX_RETRIES
             THEN /\ tasks' = [tasks EXCEPT ![i].pc = "sleeping", ![i].failed = @ + 1,
                                            ![i].sleeps = @ + 1,
                                            ![i].result.error = Failure(resp, dest_files[i])]
                  /\ UNCHANGED semaphore
             ELSE LET done == [tasks EXCEPT ![i].pc = "done", ![i].failed = @ + 1,
                                            ![i].result.error = Failure(resp, dest_files[i])]
                      r == Released(semaphore, done)
                  IN semaphore' = r.sem /\ tasks' = r.ts
  /\ UNCHANGED << scanner, scorer, dpc, urls, max_concurrent, results >>

\* the attempt ends in an error the except clause catches: the file is not a
\* PDF (it is unlinked and ValueError raised), or _download_blocking raised
\* HTTPError, URLError, ValueError or OSError.  The error is recorded and dest
\* is unlinked; then the back-off sleep, or after the last attempt the return
\* of the result
AttemptFails(i) ==
  /\ dpc = "gather"
  /\ tasks[i].pc = "downloading"
  /\ dest_files' = [dest_files EXCEPT ![i] = Absent]
  /\ \E resp \in Responses :
       LET d == download_blocking(resp, dest_files[i])
       IN /\ d.raised = "handled" \/ (d.raised = "none" /\ ~validate_pdf(d.file))
          /\ IF tasks[i].attempt < MAX_RETRIES
             THEN /\ tasks' = [tasks EXCEPT ![i].pc = "sleeping", ![i].failed = @ + 1,
                                            ![i].sleeps = @ + 1,
                                            ![i].result.error = Failure(resp, dest_files[i])]
                  /\ UNCHANGED semaphore
             ELSE LET done == [tasks EXCEPT ![i].pc = "done", ![i].failed = @ + 1,
                                            ![i].result.error = Failure(resp, dest_files[i])]
                      r == Released(semaphore, done)
                  IN semaphore' = r.sem /\ tasks' = r.ts
  /\ UNCHANGED << scanner, scorer, dpc, urls, max_concurrent, results >>

\* the attempt raises an exception the except clause does not name: it leaves
\* download_one through "async with", which releases the semaphore; the file
\* is left as the download left it
AttemptRaises(i) ==
  /\ dpc = "gather"
  /\ tasks[i].pc = "downloading"
  /\ \E resp \in Responses :
       LET d == download_blocking(resp, dest_files[i])
       IN /\ d.raised = "unhandled"
          /\ dest_files' = [dest_files EXCEPT ![i] = d.file]
  /\ LET r == Released(semaphore, [tasks EXCEPT ![i].pc = "raised"])
     IN semaphore' = r.sem /\ tasks' = r.ts
  /\ UNCHANGED << scanner, scorer, dpc, urls, max_concurrent, results >>

\* asyncio.sleep(wait) is over: the next attempt of the for loop
Retry(i) ==
  /\ dpc = "gather"
  /\ tasks[i].pc = "sleeping"
  /\ tasks' = [tasks EXCEPT ![i].pc = "downloading", ![i].attempt = @ + 1]
  /\ UNCHANGED << scanner, scorer, dpc, urls, max_concurrent, semaphore, dest_files, results >>

\* every task has returned: gather gives the results in the order of the tasks
GatherReturns ==
  /\ dpc = "gather"
  /\ \A i \in 1..Len(tasks) : tasks[i].pc = "done"
  /\ results' = [i \in 1..Len(tasks) |-> tasks[i].result]
  /\ dpc' = "returned"
  /\ UNCHANGED << scanner, scorer, urls, max_concurrent, semaphore, tasks, dest_files >>

\* a task has raised: gather (return_exceptions is False) raises its exception
\* in download_resumes, nothing catches it, and asyncio.run cancels the tasks
\* that have not finished
GatherRaises ==
  /\ dpc = "gather"
  /\ \E i \in 1..Len(tasks) : tasks[i].pc = "raised"
  /\ tasks' = [i \in 1..Len(tasks) |->
                 IF tasks[i].pc \in {"done", "raised"} THEN tasks[i]
                 ELSE [tasks[i] EXCEPT !.pc = "cancelled"]]
  /\ semaphore' = [semaphore EXCEPT !.waiters = <<>>]
  /\ dpc' = "raised"
  /\ UNCHANGED << scanner, scorer, urls, max_concurrent, dest_files, results >>

NextDownload ==
  \/ CreateTasks
  \/ \E i \in 1..Len(tasks) : Enter(i)
  \/ \E i \in 1..Len(tasks) : AttemptSucceeds(i)
  \/ \E i \in 1..Len(tasks) : AttemptFails(i)
  \/ \E i \in 1..Len(tasks) : AttemptRaises(i)
  \/ \E i \in 1..Len(tasks) : Retry(i)
  \/ GatherReturns
  \/ GatherRaises

SpecDownload == InitDownload /\ [][NextDownload]_vars

\* the event loop keeps running what is ready, and every attempt and every
\* sleep ends
SpecDownloadFair == SpecDownload /\ WF_vars(NextDownload)

(***************************************************************************)
(* The resume scorer (resume_scorer.py).  A text is a sequence of tokens:  *)
(* what the regular expressions of the scorer can match in it.             *)
(***************************************************************************)
MaxTokens == 3
MaxResumes == 2

\* a word none of the patterns matches
Word == [t |-> "word", n |-> 0, start |-> 0, end |-> <<>>]

\* "N years of experience", "N+ years experience": a match of the first pattern
Explicit(n) == [t |-> "explicit", n |-> n, start |-> 0, end |-> <<>>]

\* "2015 - 2019", "Jan 2015 – Mar 2019": a match of the date range pattern,
\* with its two groups
Range(start, end) == [t |-> "range", n |-> 0, start |-> start, end |-> <<end>>]

\* "2015 - Present": the second group is one of present, current, now
RangeToPresent(start) == [t |-> "range", n |-> 0, start |-> start, end |-> <<>>]

\* max(int(y) for y in explicit)
MaxOf(ns) == CHOOSE n \in ns : \A m \in ns : m <= n

\* intervals.sort(), in the order of Python tuples
RECURSIVE SortIntervals(_)
SortIntervals(intervals) ==
  IF intervals = <<>> THEN <<>>
  ELSE LET TupleLess(a, b) == a[1] < b[1] \/ (a[1] = b[1] /\ a[2] < b[2])
           k == CHOOSE i \in 1..Len(intervals) :
                  \A j \in 1..Len(intervals) : ~TupleLess(intervals[j], intervals[i])
       IN <<intervals[k]>> \o
          SortIntervals(SubSeq(intervals, 1, k - 1) \o
                        SubSeq(intervals, k + 1, Len(intervals)))

\* the merge that keeps the end of the interval it merges in
MergeInto_LastEnd(merged, iv) ==
  LET prev == merged[Len(merged)]
  IN IF iv[1] <= prev[2]
     THEN [merged EXCEPT ![Len(merged)] = << prev[1], iv[2] >>]
     ELSE Append(merged, iv)

\* one turn of the merge loop
MergeInto(merged, iv) ==
  LET prev == merged[Len(merged)]
  IN IF iv[1] <= prev[2]
     THEN [merged EXCEPT ![Len(merged)] =
             << prev[1], IF prev[2] >= iv[2] THEN prev[2] ELSE iv[2] >>]
     ELSE Append(merged, iv)

\* the merge loop over intervals[1:]
RECURSIVE MergeAll(_, _)
MergeAll(merged, rest) ==
  IF rest = <<>> THEN merged ELSE MergeAll(MergeInto(merged, Head(rest)), Tail(rest))

\* the date ranges found in txt
YearRanges(txt) ==
  LET IsRange(tok) == tok.t = "range"
  IN SelectSeq(txt, IsRange)

\* the list intervals: (start_y, end_y) for each of the year_ranges that
\* passes the test of the loop
Intervals(txt, cy) ==
  LET year_ranges == YearRanges(txt)
      all == [k \in 1..Len(year_ranges) |->
                << year_ranges[k].start,
                   IF year_ranges[k].end = <<>> THEN cy ELSE year_ranges[k].end[1] >>]
      Keep(iv) == 1970 <= iv[1] /\ iv[1] <= cy /\ iv[1] <= iv[2] /\ iv[2] <= cy + 1
  IN SelectSeq(all, Keep)

\* the list merged (intervals is not empty)
Merged(txt, cy) ==
  LET sorted == SortIntervals(Intervals(txt, cy))
  IN MergeAll(<<Head(sorted)>>, Tail(sorted))

\* sum(end - start for start, end in merged)
RECURSIVE Total(_)
Total(merged) ==
  IF merged = <<>> THEN 0 ELSE Head(merged)[2] - Head(merged)[1] + Total(Tail(merged))

\* extract_years_of_experience(text), in the year cy
extract_years_of_experience(txt, cy) ==
  LET IsExplicit(tok) == tok.t = "explicit"
      explicit == SelectSeq(txt, IsExplicit)
  IN IF explicit # <<>>
     THEN << MaxOf({explicit[k].n : k \in 1..Len(explicit)}) >>
     ELSE IF YearRanges(txt) = <<>> THEN <<>>
     ELSE IF Intervals(txt, cy) = <<>> THEN <<>>
     ELSE LET total == Total(Merged(txt, cy))
          IN IF total > 0 THEN <<total>> ELSE <<>>

\* the years in which the scorer may run
CurrentYears == {2025, 2026}

\* what a resume may contain
TokenPool ==
  { Word, Explicit(5), Explicit(0),
    Range(1970, 1974), Range(1972, 1976), Range(1971, 1973), Range(1974, 1978),
    Range(1976, 1976), Range(1980, 1985), Range(1969, 1975), Range(1975, 1972),
    RangeToPresent(2024), Range(2025, 2027), Range(2026, 2026) }

\* extract_years_of_experience is called on a text
InitYears ==
  /\ ScannerIdle
  /\ DownloaderIdle
  /\ spc = "years"
  /\ current_year \in CurrentYears
  /\ text \in UNION {[1..k -> TokenPool] : k \in 0..MaxTokens}
  /\ years = <<>>
  /\ resume_dir = <<>>
  /\ jd_text = <<>>
  /\ jd = NoJd
  /\ pdf_files = <<>>
  /\ nfile = 0
  /\ warnings = <<>>
  /\ candidates = <<>>
  /\ excluded = <<>>
  /\ output_json = <<>>

\* the call returns
ExtractYears ==
  /\ spc = "years"
  /\ years' = extract_years_of_experience(text, current_year)
  /\ spc' = "years_done"
  /\ UNCHANGED << scanner, downloader, current_year, text, resume_dir, jd_text, jd,
                  pdf_files, nfile, warnings, candidates, excluded, output_json >>

SpecYears == InitYears /\ [][ExtractYears]_vars

\* the tokens of a job description: what the four patterns of
\* extract_max_years_from_jd match
JdWord == [t |-> "word", n |-> 0, m |-> 0]

\* "N-M years"
JdRange(n, m) == [t |-> "range", n |-> n, m |-> m]

\* "N to M years"
JdTo(n, m) == [t |-> "to", n |-> n, m |-> m]

\* "at most N years", "up to N years", "max N years"
JdMax(n) == [t |-> "max", n |-> n, m |-> 0]

\* "N+ years", "N years"
JdMin(n) == [t |-> "min", n |-> n, m |-> 0]

\* re.search: the first token of kind t, <<>> if there is none
Search(txt, t) ==
  LET hits == {k \in 1..Len(txt) : txt[k].t = t}
  IN IF hits = {} THEN <<>> ELSE << txt[CHOOSE k \in hits : \A j \in hits : k <= j] >>

\* extract_max_years_from_jd(text): the pair (min_years, max_years), each
\* <<>> for None
extract_max_years_from_jd(txt) ==
  IF Search(txt, "range") # <<>>
  THEN << <<Search(txt, "range")[1].n>>, <<Search(txt, "range")[1].m>> >>
  ELSE IF Search(txt, "to") # <<>>
  THEN << <<Search(txt, "to")[1].n>>, <<Search(txt, "to")[1].m>> >>
  ELSE IF Search(txt, "max") # <<>>
  THEN << <<>>, <<Search(txt, "max")[1].n>> >>
  ELSE IF Search(txt, "min") # <<>>
  THEN << <<Search(txt, "min")[1].n>>, <<Search(txt, "min")[1].n * 2>> >>
  ELSE << <<>>, <<>> >>

\* parse_job_description(jd_path), its two fields about years
parse_job_description(txt) ==
  [min_years_experience |-> extract_max_years_from_jd(txt)[1],
   max_years_experience |-> extract_max_years_from_jd(txt)[2]]

\* the job descriptions
JdTexts ==
  { <<JdWord>>, <<JdRange(3, 5)>>, <<JdTo(2, 6)>>, <<JdMax(4)>>, <<JdMin(5)>>,
    <<JdMin(2), JdMax(12)>>, <<JdMin(8), JdWord, JdRange(1, 3)>> }

\* the names of the files a resume directory may hold
ResumeFileNames ==
  { <<"a", ".", "p", "d", "f">>, <<"B", ".", "P", "D", "F">>,
    <<"c", ".", "p", "d", "f">>, <<"n", ".", "t", "x", "t">> }

\* what extract_text returns for a file: "" when no text can be extracted
\* (a scanned image, a damaged file, no PDF library), or the text
ResumeTexts ==
  { <<>>, <<Word>>, <<Range(2020, 2024)>>, <<Explicit(12)>>,
    <<Range(2000, 2010), Word, Range(2005, 2015)>> }

\* f.lower().endswith(".pdf")
IsPdfName(f) ==
  Len(f) >= 4 /\ SubSeq(Lower(f), Len(f) - 3, Len(f)) = <<".", "p", "d", "f">>

\* sorted(names)
RECURSIVE SortedNames(_)
SortedNames(names) ==
  IF names = {} THEN <<>>
  ELSE LET first == CHOOSE f \in names : \A g \in names \ {f} : StrLess(f, g)
       IN <<first>> \o SortedNames(names \ {first})

\* process_resumes(resume_dir, jd_path, output_path) is called
InitScorer ==
  /\ ScannerIdle
  /\ DownloaderIdle
  /\ spc = "start"
  /\ current_year \in CurrentYears
  /\ text = <<>>
  /\ years = <<>>
  /\ resume_dir \in
       UNION { [names -> ResumeTexts] :
                 names \in {d \in SUBSET ResumeFileNames : Cardinality(d) <= MaxResumes} }
  /\ jd_text \in JdTexts
  /\ jd = NoJd
  /\ pdf_files = <<>>
  /\ nfile = 0
  /\ warnings = <<>>
  /\ candidates = <<>>
  /\ excluded = <<>>
  /\ output_json = <<>>

\* jd = parse_job_description(jd_path)
ParseJobDescription ==
  /\ spc = "start"
  /\ jd' = parse_job_description(jd_text)
  /\ spc' = "list"
  /\ UNCHANGED << scanner, downloader, current_year, text, years, resume_dir, jd_text,
                  pdf_files, nfile, warnings, candidates, excluded, output_json >>

\* pdf_files = sorted(f for f in os.listdir(resume_dir) if ...)
ListPdfFiles ==
  /\ spc = "list"
  /\ pdf_files' = SortedNames({f \in DOMAIN resume_dir : IsPdfName(f)})
  /\ spc' = "loop"
  /\ UNCHANGED << scanner, downloader, current_year, text, years, resume_dir, jd_text,
                  jd, nfile, warnings, candidates, excluded, output_json >>

\* the loop takes the next file: no text could be extracted, the WARNING is
\* printed and the loop continues
SkipResume ==
  /\ spc = "loop"
  /\ nfile < Len(pdf_files)
  /\ text' = resume_dir[pdf_files[nfile + 1]]
  /\ text' = <<>>
  /\ warnings' = Append(warnings, pdf_files[nfile + 1])
  /\ nfile' = nfile + 1
  /\ UNCHANGED << scanner, downloader, spc, current_year, years, resume_dir, jd_text,
                  jd, pdf_files, candidates, excluded, output_json >>

\* the next file has more years of experience than the job description
\* allows: it goes to excluded
ExcludeResume ==
  /\ spc = "loop"
  /\ nfile < Len(pdf_files)
  /\ text' = resume_dir[pdf_files[nfile + 1]]
  /\ text' # <<>>
  /\ years' = extract_years_of_experience(text', current_year)
  /\ jd.max_years_experience # <<>>
  /\ years' # <<>>
  /\ years'[1] > jd.max_years_experience[1]
  /\ excluded' = Append(excluded, [filename |-> pdf_files[nfile + 1],
                                   years_of_experience |-> years',
                                   max_allowed |-> jd.max_years_experience])
  /\ nfile' = nfile + 1
  /\ UNCHANGED << scanner, downloader, spc, current_year, resume_dir, jd_text, jd,
                  pdf_files, warnings, candidates, output_json >>

\* the next file is a candidate (of its dict, the file name and the years)
AddCandidate ==
  /\ spc = "loop"
  /\ nfile < Len(pdf_files)
  /\ text' = resume_dir[pdf_files[nfile + 1]]
  /\ text' # <<>>
  /\ years' = extract_years_of_experience(text', current_year)
  /\ ~(/\ jd.max_years_experience # <<>>
       /\ years' # <<>>
       /\ years'[1] > jd.max_years_experience[1])
  /\ candidates' = Append(candidates, [filename |-> pdf_files[nfile + 1],
                                       years_of_experience |-> years'])
  /\ nfile' = nfile + 1
  /\ UNCHANGED << scanner, downloader, spc, current_year, resume_dir, jd_text, jd,
                  pdf_files, warnings, excluded, output_json >>

\* after the loop: the output dict is written to output_path
WriteOutput ==
  /\ spc = "loop"
  /\ nfile = Len(pdf_files)
  /\ output_json' =
       << [max_years_experience |-> jd.max_years_experience,
           candidates |-> candidates,
           excluded_overqualified |-> excluded,
           total_resumes_scanned |-> Len(pdf_files),
           total_after_exclusion |-> Len(candidates),
           total_excluded |-> Len(excluded)] >>
  /\ spc' = "done"
  /\ UNCHANGED << scanner, downloader, current_year, text, years, resume_dir, jd_text,
                  jd, pdf_files, nfile, warnings, candidates, excluded >>

NextScorer ==
  \/ ParseJobDescription
  \/ ListPdfFiles
  \/ SkipResume
  \/ ExcludeResume
  \/ AddCandidate
  \/ WriteOutput

SpecScorer == InitScorer /\ [][NextScorer]_vars

(***************************************************************************)
(* Vocabulary of the properties.                                           *)
(***************************************************************************)
Printed == stdout # <<>>

\* the scan has returned its findings to main
ScanDone == pc = "format" \/ Printed

\* the findings of the printed report, in the order the report lists them
Reported ==
  IF stdout = <<>> THEN <<>>
  ELSE IF stdout[1].mode = "json" THEN stdout[1].findings
  ELSE LET entries == SelectSeq(stdout[1].body, LAMBDA e : e.t = "finding")
       IN [k \in 1..Len(entries) |-> entries[k].f]

SingleFileScan == IsFile(target)
DirectoryScan == IsDir(target)

\* the file field scan_directory gives the findings of the file at path p
Shown(p) == IF SingleFileScan THEN AbsStr(p) ELSE RelStr(RelativeTo(p, target))

ReadSet == {readLog[k] : k \in 1..Len(readLog)}

\* the files whose text the scan has read
ScannedFiles == {p \in ReadSet : FileAt(p).readable}

\* the position of the read of the file shown as file in a finding
ReadIndex(file) == CHOOSE k \in 1..Len(readLog) : Shown(readLog[k]) = file

LinesOf(p) == Split(FileAt(p).content, NL)

CatalogRules == {rules[k] : k \in 1..Len(rules)}

MatchesPattern(rule, line) == ~ReError(rule.pattern) /\ ReSearch(rule.pattern, line)

MatchesExclusion(rule, line) ==
  /\ Given(rule.exclude_pattern)
  /\ ~ReError(rule.exclude_pattern)
  /\ ReSearch(rule.exclude_pattern, line)

\* the positions of the findings of rule on line i of the file at p
FindingsAt(rule, p, i) ==
  {k \in 1..Len(all_findings) :
     /\ all_findings[k].rule_id = rule.rule_id
     /\ all_findings[k].file = Shown(p)
     /\ all_findings[k].line = i}

\* the sort key of the claims: severity rank, rule id, file, line
ClaimRank(sev) ==
  CASE sev = "CRITICAL" -> 0
    [] sev = "HIGH" -> 1
    [] sev = "MEDIUM" -> 2
    [] sev = "LOW" -> 3
    [] sev = "INFO" -> 4

ClaimKeyLess(f, g) ==
  \/ ClaimRank(f.severity) < ClaimRank(g.severity)
  \/ /\ ClaimRank(f.severity) = ClaimRank(g.severity)
     /\ \/ StrLess(f.rule_id, g.rule_id)
        \/ /\ f.rule_id = g.rule_id
           /\ \/ StrLess(f.file, g.file)
              \/ f.file = g.file /\ f.line < g.line

ClaimKeyLeq(f, g) == ~ClaimKeyLess(g, f)

(***************************************************************************)
(* C1.  In both output modes the reported findings are sorted ascending by *)
(* (severity rank, rule id, file, line): the key of each reported finding  *)
(* is less than or equal to the key of the next one.                       *)
(***************************************************************************)
C1_ReportSorted ==
  Printed =>
    \A k \in 1..(Len(Reported) - 1) : ClaimKeyLeq(Reported[k], Reported[k + 1])

\* a text report of a directory scan whose findings the walk collected out of
\* order: severities, rule ids and files all vary
C1_Witness ==
  /\ Printed
  /\ output = "text"
  /\ Len(Reported) >= 4
  /\ \E k \in 1..(Len(Reported) - 1) : Reported[k].severity # Reported[k + 1].severity
  /\ \E k \in 1..(Len(Reported) - 1) :
       /\ Reported[k].rule_id = Reported[k + 1].rule_id
       /\ Reported[k].file # Reported[k + 1].file

(***************************************************************************)
(* C2.  For a fixed tree and fixed options the reported findings sequence  *)
(* is the same for every order in which the walk enumerates directories    *)
(* and files and in which rules are applied: the report lists exactly the  *)
(* findings of the selected files, each once, in strictly ascending key    *)
(* order (no two findings share a key), so it is a function of the tree    *)
(* and the options alone.                                                  *)
(***************************************************************************)
\* a directory between the scan root and the file at p is pruned
C2_BelowPruned(p) == \E k \in (Len(target) + 1)..(Len(p) - 1) : should_skip_dir(p[k])

\* the files a directory scan passes to scan_file, whatever the order
C2_Selected ==
  {f.path : f \in {g \in files :
     /\ Len(g.path) > Len(target)
     /\ SubSeq(g.path, 1, Len(target)) = target
     /\ ~C2_BelowPruned(g.path)
     /\ ~ExcludeMatches(RelativeTo(g.path, target))
     /\ should_scan_file(g.path, lang_filter)}}

\* the findings of one file, as a set
C2_FileFindings(p) ==
  IF ~FileAt(p).readable THEN {}
  ELSE {Finding(x[1], Shown(p), x[2], LinesOf(p)[x[2]]) :
          x \in {y \in CatalogRules \X (1..Len(LinesOf(p))) :
                   /\ rule_applies(y[1], p)
                   /\ MatchesPattern(y[1], LinesOf(p)[y[2]])
                   /\ ~MatchesExclusion(y[1], LinesOf(p)[y[2]])}}

C2_Expected ==
  IF SingleFileScan THEN C2_FileFindings(target)
  ELSE UNION {C2_FileFindings(p) : p \in C2_Selected}

C2_OrderIndependent ==
  Printed =>
    /\ {Reported[k] : k \in 1..Len(Reported)} = C2_Expected
    /\ Len(Reported) = Cardinality(C2_Expected)
    /\ \A k \in 1..(Len(Reported) - 1) : ClaimKeyLess(Reported[k], Reported[k + 1])

\* a report that lists two findings of one rule in the order opposite to the
\* order in which the walk read their files
C2_Witness ==
  /\ Printed
  /\ DirectoryScan
  /\ \E j, k \in 1..Len(Reported) :
       /\ j < k
       /\ Reported[j].rule_id = Reported[k].rule_id
       /\ Reported[j].file # Reported[k].file
       /\ ReadIndex(Reported[j].file) > ReadIndex(Reported[k].file)

(***************************************************************************)
(* C3 as stated.  For every rule that has an exclusion pattern and every   *)
(* line of every scanned file: a line that matches the rule's pattern and  *)
(* its exclusion pattern has no finding of the rule, and a line that       *)
(* matches the pattern and not the exclusion pattern has one.              *)
(***************************************************************************)
C3_ExclusionEveryRule ==
  \A rule \in CatalogRules : \A p \in ScannedFiles : \A i \in 1..Len(LinesOf(p)) :
    (Given(rule.exclude_pattern) /\ MatchesPattern(rule, LinesOf(p)[i])) =>
       IF MatchesExclusion(rule, LinesOf(p)[i])
       THEN FindingsAt(rule, p, i) = {}
       ELSE FindingsAt(rule, p, i) # {}

(***************************************************************************)
(* C3 as amended.  For every rule that has an exclusion pattern and        *)
(* applies to the file's extension, and every line of every scanned file:  *)
(* a line that matches the rule's pattern and its exclusion pattern has no *)
(* finding of the rule, and a line that matches the pattern and not the    *)
(* exclusion pattern has one.                                              *)
(***************************************************************************)
C3_ExclusionApplicableRule ==
  \A rule \in CatalogRules : \A p \in ScannedFiles : \A i \in 1..Len(LinesOf(p)) :
    (/\ Given(rule.exclude_pattern)
     /\ rule_applies(rule, p)
     /\ MatchesPattern(rule, LinesOf(p)[i])) =>
       IF MatchesExclusion(rule, LinesOf(p)[i])
       THEN FindingsAt(rule, p, i) = {}
       ELSE FindingsAt(rule, p, i) # {}

\* a scanned file with a line that an applicable rule reports and a line that
\* the rule's exclusion pattern suppresses
C3_Witness ==
  \E rule \in CatalogRules : \E p \in ScannedFiles : \E i, j \in 1..Len(LinesOf(p)) :
    /\ Given(rule.exclude_pattern)
    /\ rule_applies(rule, p)
    /\ MatchesPattern(rule, LinesOf(p)[i]) /\ MatchesExclusion(rule, LinesOf(p)[i])
    /\ FindingsAt(rule, p, i) = {}
    /\ MatchesPattern(rule, LinesOf(p)[j]) /\ ~MatchesExclusion(rule, LinesOf(p)[j])
    /\ FindingsAt(rule, p, j) # {}

(***************************************************************************)
(* C4.  For every scanned file, rule and line number the collected         *)
(* findings hold at most one finding with that (file, rule id, line),      *)
(* however many times the pattern matches within the line.                 *)
(***************************************************************************)
C4_OneFindingPerRuleLine ==
  \A j, k \in 1..Len(all_findings) :
    (/\ all_findings[j].file = all_findings[k].file
     /\ all_findings[j].rule_id = all_findings[k].rule_id
     /\ all_findings[j].line = all_findings[k].line) => j = k

\* a line on which a rule's pattern matches twice has exactly one finding
C4_Witness ==
  \E rule \in CatalogRules : \E p \in ScannedFiles : \E i \in 1..Len(LinesOf(p)) :
    /\ rule.pattern.kind = "lit"
    /\ Occurrences(rule.pattern.lit, LinesOf(p)[i]) >= 2
    /\ Cardinality(FindingsAt(rule, p, i)) = 1

(***************************************************************************)
(* C5.  Rule applicability depends only on the file's extension compared   *)
(* case-insensitively: on a line it matches, a rule with an empty          *)
(* extension set reports in files of every extension, and a rule with a    *)
(* nonempty set reports exactly in the files whose lower-cased extension   *)
(* is a member of the set.                                                 *)
(***************************************************************************)
C5_ApplicabilityByExtension ==
  \A rule \in CatalogRules : \A p \in ScannedFiles : \A i \in 1..Len(LinesOf(p)) :
    (MatchesPattern(rule, LinesOf(p)[i]) /\ ~MatchesExclusion(rule, LinesOf(p)[i])) =>
       (FindingsAt(rule, p, i) # {} <=>
          (rule.languages = {} \/ Lower(Suffix(p)) \in rule.languages))

\* a rule for .py files reports in a file whose extension is .PY, a rule for
\* all files reports in a file of another extension, and a matching line of a
\* file of another extension has no finding of the rule for .py files
C5_Witness ==
  \E r1, r2 \in CatalogRules : \E p, q \in ScannedFiles :
    /\ r1.languages # {} /\ r2.languages = {}
    /\ Suffix(p) \notin r1.languages
    /\ \E i \in 1..Len(LinesOf(p)) : FindingsAt(r1, p, i) # {}
    /\ Lower(Suffix(q)) \notin r1.languages
    /\ \E i \in 1..Len(LinesOf(q)) : FindingsAt(r2, q, i) # {}
    /\ \E i \in 1..Len(LinesOf(q)) :
         MatchesPattern(r1, LinesOf(q)[i]) /\ FindingsAt(r1, q, i) = {}

(***************************************************************************)
(* C6 as stated.  When the --exclude pattern matches a file's path         *)
(* relative to the scan root, the report holds no finding for that file.   *)
(***************************************************************************)
\* the file at p is the scan root or lies below it
C6_UnderRoot(p) == Len(p) >= Len(target) /\ SubSeq(p, 1, Len(target)) = target

\* --exclude compiles and matches the path of p relative to the scan root
C6_PatternMatches(p) ==
  /\ Given(exclude_pattern)
  /\ ~ReError(exclude_pattern)
  /\ ReSearch(exclude_pattern, RelStr(RelativeTo(p, target)))

C7_PrunedName(n) == n \in SKIP_DIRS \/ (n # <<>> /\ Head(n) = ".")

\* the walk neither lists a directory nor reads a file below a pruned directory
C7_NothingBelowPruned ==
  /\ \A p \in ReadSet :
       \A c \in (Len(target) + 1)..(Len(p) - 1) : ~C7_PrunedName(p[c])
  /\ \A d \in walked :
       \A c \in (Len(target) + 1)..Len(d) : ~C7_PrunedName(d[c])

C7_NoPrunedComponent ==
  /\ \A k \in 1..Len(Reported) :
       LET comps == Split(Reported[k].file, SEP)
       IN \A c \in 1..Len(comps) : ~C7_PrunedName(comps[c])
  /\ C7_NothingBelowPruned

(***************************************************************************)
(* C7 as amended.  No reported finding's path relative to the scan root    *)
(* contains a pruned directory name as a directory component, that is as   *)
(* a component before the final one, the file's own name; and the walk     *)
(* neither lists a directory nor reads a file below a pruned directory.    *)
(***************************************************************************)
C7_NoPrunedDirectoryComponent ==
  /\ DirectoryScan =>
       \A k \in 1..Len(Reported) :
         LET comps == Split(Reported[k].file, SEP)
         IN \A c \in 1..(Len(comps) - 1) : ~C7_PrunedName(comps[c])
  /\ C7_NothingBelowPruned

\* a report of a directory scan with a finding in a subdirectory, while a file
\* below a pruned directory of the root holds lines that rules match
C7_Witness ==
  /\ Printed
  /\ DirectoryScan
  /\ \E k \in 1..Len(Reported) : Len(Split(Reported[k].file, SEP)) >= 2
  /\ \E f \in files :
       /\ C6_UnderRoot(f.path)
       /\ C2_BelowPruned(f.path)
       /\ should_scan_file(f.path, lang_filter)
       /\ ~ExcludeMatches(RelativeTo(f.path, target))
       /\ C2_FileFindings(f.path) # {}
       /\ f.path \notin ReadSet

(***************************************************************************)
(* C8.  Every reported finding's file field is the scanned file's path     *)
(* relative to the scan root, never an absolute path, whether the target   *)
(* is a directory or a single file.                                        *)
(***************************************************************************)
C8_FileRelativeToRoot ==
  \A k \in 1..Len(Reported) :
    /\ Head(Reported[k].file) # SEP
    /\ \E p \in ReadSet : Reported[k].file = RelStr(RelativeTo(p, target))

(***************************************************************************)
(* C9.  A scan whose target does not exist is aborted before any file is   *)
(* read or matched: an error goes to the error stream, the process exits   *)
(* with a nonzero code, and no report is printed.                          *)
(***************************************************************************)
C9_MissingTargetAborts ==
  ~Exists(target) =>
    /\ pc \in {"start", "exited"}
    /\ readLog = <<>>
    /\ walked = {}
    /\ all_findings = <<>>
    /\ stdout = <<>>
    /\ pc = "exited" => (stderr # <<>> /\ exitCode > 0)

\* the process has exited on a missing target
C9_Witness ==
  /\ ~Exists(target)
  /\ pc = "exited"
  /\ exitCode = 1
  /\ stderr # <<>>

(***************************************************************************)
(* C10.  A missing target is the only condition that ends the process      *)
(* abnormally: whenever the target exists, whatever --lang and --exclude   *)
(* are (an --exclude that is no regular expression included), the process  *)
(* ends with a printed report and exit code 0.                             *)
(***************************************************************************)
C10_OnlyMissingTargetIsFatal ==
  (Exists(target) /\ pc = "exited") =>
    /\ Printed
    /\ exitCode = 0
    /\ stderr = <<>>

(***************************************************************************)
(* Rules whose patterns do not compile.                                    *)
(***************************************************************************)
FailsToCompile(rule) ==
  \/ ReError(rule.pattern)
  \/ Given(rule.exclude_pattern) /\ ReError(rule.exclude_pattern)

FailingRules == {r \in CatalogRules : FailsToCompile(r)}

\* the findings that the rules of ruleSet have in the file at p
FindingsOfRules(ruleSet, p) ==
  {Finding(x[1], Shown(p), x[2], LinesOf(p)[x[2]]) :
     x \in {y \in ruleSet \X (1..Len(LinesOf(p))) :
              /\ rule_applies(y[1], p)
              /\ MatchesPattern(y[1], LinesOf(p)[y[2]])
              /\ ~MatchesExclusion(y[1], LinesOf(p)[y[2]])}}

\* the findings the scan holds for the file at p
HeldFor(p) ==
  {all_findings[k] : k \in {j \in 1..Len(all_findings) : all_findings[j].file = Shown(p)}}

\* C11: a rule whose match pattern or whose exclusion pattern does not
\* compile is disabled: the scan result holds no finding with its rule_id.
C11_FailingRuleDisabled ==
  \A k \in 1..Len(all_findings) :
    \A r \in FailingRules : all_findings[k].rule_id # r.rule_id

\* C12: a pattern of one rule that does not compile never aborts the scan and
\* never changes what the other rules report: for every file read, the
\* findings of the other rules are those of the rule list without the failing
\* rule, the rules placed after it included, and the scan ends with a report.
C12_OtherRulesUnaffected ==
  /\ ScanDone =>
       \A p \in ScannedFiles :
         \A r \in FailingRules :
           {f \in HeldFor(p) : f.rule_id # r.rule_id} = FindingsOfRules(CatalogRules \ {r}, p)
  /\ (pc = "exited" /\ Exists(target) /\ ~ReError(exclude_pattern))
       => (Printed /\ exitCode = 0)

\* a report of a scan under a list whose sixth rule has an exclusion pattern
\* that does not compile and whose second rule has a match pattern that does
\* not compile: rules placed after each of them (the third and the eighth)
\* have findings in it
C12_Witness ==
  /\ Printed
  /\ ReError(rules[2].pattern)
  /\ ReError(rules[6].exclude_pattern)
  /\ \E k \in 1..Len(Reported) : Reported[k].rule_id = rules[3].rule_id
  /\ \E k \in 1..Len(Reported) : Reported[k].rule_id = rules[8].rule_id

\* the findings of the printed report, as a set
ReportedSet == {Reported[k] : k \in 1..Len(Reported)}

\* C13: a file whose read fails contributes no finding and no placeholder
\* entry, and the scan goes on: the report of a directory scan has the
\* findings of every other selected file, those read after it included.
C13_UnreadableFileSkipped ==
  /\ \A p \in ReadSet : ~FileAt(p).readable => HeldFor(p) = {}
  /\ (Printed /\ DirectoryScan /\ \E u \in ReadSet : ~FileAt(u).readable) =>
       \A p \in C2_Selected :
         /\ p \in ReadSet
         /\ FileAt(p).readable => FindingsOfRules(CatalogRules, p) \subseteq ReportedSet

\* a report of a directory scan that met a file it could not read and lists a
\* finding of a file read after that one
C13_Witness ==
  /\ Printed
  /\ DirectoryScan
  /\ \E i, j \in 1..Len(readLog) :
       /\ i < j
       /\ ~FileAt(readLog[i]).readable
       /\ FileAt(readLog[j]).readable
       /\ HeldFor(readLog[j]) # {}
       /\ HeldFor(readLog[j]) \subseteq ReportedSet

JsonPrinted == Printed /\ stdout[1].mode = "json"

\* the target is a directory with no file anywhere below it
EmptyDirectory ==
  IsDir(target) /\ \A f \in files : SubSeq(f.path, 1, Len(target)) # target

\* C14: the JSON report has a counts map with exactly the five keys CRITICAL,
\* HIGH, MEDIUM, LOW and INFO, each count is the number of findings of that
\* severity (zero when there is none), and total is the number of findings;
\* the report of an empty directory has total 0, five zero counts and no
\* findings.
C14_JsonCounts ==
  JsonPrinted =>
    LET report == stdout[1]
    IN /\ DOMAIN report.counts = {"CRITICAL", "HIGH", "MEDIUM", "LOW", "INFO"}
       /\ \A sev \in DOMAIN report.counts :
            report.counts[sev] =
              Cardinality({k \in 1..Len(report.findings) :
                             report.findings[k].severity = sev})
       /\ report.total = Len(report.findings)
       /\ Len(report.findings) = Len(all_findings)
       /\ EmptyDirectory =>
            /\ report.total = 0
            /\ report.findings = <<>>
            /\ \A sev \in {"CRITICAL", "HIGH", "MEDIUM", "LOW", "INFO"} :
                 report.counts[sev] = 0

\* a JSON report with a severity counted several times, a severity counted
\* once and a severity without findings
C14_Witness ==
  /\ JsonPrinted
  /\ \E sev \in DOMAIN stdout[1].counts : stdout[1].counts[sev] > 1
  /\ \E sev \in DOMAIN stdout[1].counts : stdout[1].counts[sev] = 1
  /\ \E sev \in DOMAIN stdout[1].counts : stdout[1].counts[sev] = 0
  /\ stdout[1].total > 2

\* the positions of the newline characters of the file at p, and their number
NewlinesOf(p) ==
  {i \in 1..Len(FileAt(p).content) : FileAt(p).content[i] = NL}

\* the number of lines of the file at p: one more than its newline characters
NumLines(p) == Cardinality(NewlinesOf(p)) + 1

\* line n of the file at p: the text between newline n - 1 and newline n
NthLine(p, n) ==
  LET content == FileAt(p).content
      before == {i \in NewlinesOf(p) : Cardinality({j \in NewlinesOf(p) : j <= i}) = n - 1}
      after == {i \in NewlinesOf(p) : Cardinality({j \in NewlinesOf(p) : j <= i}) = n}
      first == IF before = {} THEN 1 ELSE (CHOOSE i \in before : TRUE) + 1
      last == IF after = {} THEN Len(content) ELSE (CHOOSE i \in after : TRUE) - 1
  IN SubSeq(content, first, last)

\* C15: the line number n of every finding satisfies 1 <= n <= the number of
\* lines of the scanned file, counted over the content split on newlines with
\* blank lines counted, and line n is the line whose text the rule matched.
C15_LineNumbers ==
  ScanDone =>
    \A p \in ScannedFiles :
      \A f \in HeldFor(p) :
        /\ 1 <= f.line
        /\ f.line <= NumLines(p)
        /\ \E r \in CatalogRules :
             /\ r.rule_id = f.rule_id
             /\ MatchesPattern(r, NthLine(p, f.line))
        /\ f.matched_text = Take(Strip(NthLine(p, f.line)), 200)

\* a scan that holds a finding on a line that follows a blank line and a
\* finding on the last line of a file of several lines
C15_Witness ==
  /\ \E p \in ScannedFiles :
       \E f \in HeldFor(p) :
         \E b \in 1..(f.line - 1) : NthLine(p, b) = <<>>
  /\ \E p \in ScannedFiles :
       \E f \in HeldFor(p) : f.line = NumLines(p) /\ f.line > 1

\* C16: the matched_text of every finding is at most 200 characters long,
\* whatever the length of the line it was taken from.
C16_MatchedTextBounded ==
  /\ \A k \in 1..Len(all_findings) : Len(all_findings[k].matched_text) <= 200
  /\ \A k \in 1..Len(Reported) : Len(Reported[k].matched_text) <= 200

\* a reported finding of a line whose stripped text is longer than 200
\* characters: its matched_text is the first 200 of them
C16_Witness ==
  /\ Printed
  /\ \E p \in ScannedFiles :
       \E f \in HeldFor(p) :
         /\ f \in ReportedSet
         /\ Len(Strip(NthLine(p, f.line))) > 200
         /\ f.matched_text = SubSeq(Strip(NthLine(p, f.line)), 1, 200)

\* the files below the target that are in no pruned directory
C17_Candidates ==
  {f.path : f \in {g \in files :
     /\ Len(g.path) > Len(target)
     /\ SubSeq(g.path, 1, Len(target)) = target
     /\ \A k \in (Len(target) + 1)..(Len(g.path) - 1) : ~C7_PrunedName(g.path[k])}}

C17_NotBinary(p) == Lower(Suffix(p)) \notin BINARY_EXTENSIONS

C17_InLanguage(p) ==
  lang_filter # None => Lower(Suffix(p)) \in LANG_EXTENSIONS(lang_filter)

C17_NotExcluded(p) ==
  Given(exclude_pattern) => ~ReSearch(exclude_pattern, RelStr(RelativeTo(p, target)))

\* C17: in a directory scan, a file in non-pruned directories is passed to the
\* matcher if and only if its extension is not binary, a language filter (if
\* active) has the extension in its set, and the exclude expression (if given)
\* does not match the file's path relative to the root; a single-file target
\* is passed as exactly that file, whatever the three filters say.
C17_FileSelection ==
  /\ DirectoryScan => ReadSet \subseteq C17_Candidates
  /\ (ScanDone /\ DirectoryScan) =>
       /\ ReadSet = {p \in C17_Candidates :
                       C17_NotBinary(p) /\ C17_InLanguage(p) /\ C17_NotExcluded(p)}
       /\ Len(readLog) = Cardinality(ReadSet)
  /\ (ScanDone /\ SingleFileScan) => readLog = <<target>>

\* a finished directory scan with a language filter and an exclude expression
\* that passed a file and dropped one file for each of the three reasons
C17_Witness ==
  /\ ScanDone
  /\ DirectoryScan
  /\ lang_filter # None
  /\ Given(exclude_pattern)
  /\ ReadSet # {}
  /\ \E p \in C17_Candidates : ~C17_NotBinary(p)
  /\ \E p \in C17_Candidates :
       C17_NotBinary(p) /\ ~C17_InLanguage(p) /\ C17_NotExcluded(p)
  /\ \E p \in C17_Candidates :
       C17_NotBinary(p) /\ C17_InLanguage(p) /\ ~C17_NotExcluded(p)

TextPrinted == Printed /\ stdout[1].mode = "text"

\* the lines of the printed text report below its header
Body == stdout[1].body

HeadingLines == {k \in 1..Len(Body) : Body[k].t = "heading"}

FindingLines == {k \in 1..Len(Body) : Body[k].t = "finding"}

\* the severity of the finding listed before line k, None when there is none
PreviousSeverity(k) ==
  LET before == {j \in FindingLines : j < k}
  IN IF before = {} THEN None
     ELSE Body[CHOOSE j \in before : \A i \in before : i <= j].severity

\* C18: the text report of zero findings is the single no-findings message,
\* with no header and no headings; otherwise a severity heading is emitted
\* exactly when a finding's severity differs from that of the finding before
\* it, each severity with findings has exactly one heading, the headings are
\* in ascending rank and every finding is listed after the heading of its own
\* severity.
C18_TextHeadings ==
  TextPrinted =>
    /\ stdout[1].nofindings <=> all_findings = <<>>
    /\ stdout[1].nofindings => (Body = <<>> /\ stdout[1].summary = <<>>)
    /\ [k \in 1..Cardinality(FindingLines) |->
          Body[CHOOSE j \in FindingLines :
                 Cardinality({i \in FindingLines : i <= j}) = k].f] = all_findings
    /\ \A k \in FindingLines :
         (k > 1 /\ Body[k - 1].t = "heading") <=> (PreviousSeverity(k) # Body[k].severity)
    /\ \A k \in HeadingLines :
         k < Len(Body) /\ Body[k + 1].t = "finding" /\ Body[k + 1].severity = Body[k].severity
    /\ \A sev \in {"CRITICAL", "HIGH", "MEDIUM", "LOW", "INFO"} :
         Cardinality({k \in HeadingLines : Body[k].severity = sev}) =
           IF \E k \in FindingLines : Body[k].severity = sev THEN 1 ELSE 0
    /\ \A i, j \in HeadingLines :
         i < j => ClaimRank(Body[i].severity) < ClaimRank(Body[j].severity)
    /\ \A k \in FindingLines :
         \E h \in HeadingLines : h < k /\ Body[h].severity = Body[k].severity

\* a text report with three headings, one of them followed by several findings
C18_Witness ==
  /\ TextPrinted
  /\ Cardinality(HeadingLines) >= 3
  /\ \E k \in HeadingLines :
       k + 2 <= Len(Body) /\ Body[k + 1].t = "finding" /\ Body[k + 2].t = "finding"

(***************************************************************************)
(* Properties of the downloader.                                           *)
(***************************************************************************)
DownloadEnded == dpc \in {"returned", "raised"}

\* the tasks inside "async with semaphore"
InsideSemaphore ==
  {i \in 1..Len(tasks) : tasks[i].pc \in {"downloading", "sleeping"}}

\* task i has acquired the semaphore
Acquired(i) == i \in 1..Len(tasks) /\ tasks[i].attempt >= 1

\* C19: download_resumes returns a list with exactly one result per input URL,
\* in the order of urls (result i has the url urls[i]), for every combination
\* of downloads that succeed and downloads that fail and every interleaving.
C19_OneResultPerUrl ==
  DownloadEnded =>
    /\ dpc = "returned"
    /\ Len(results) = Len(urls)
    /\ \A i \in 1..Len(urls) : results[i].url = urls[i]

\* C20: at every moment at most max_concurrent tasks are inside the semaphore
\* section, and every task eventually acquires the semaphore (every attempt
\* finishes).
C20_BoundedAndLive ==
  /\ [](Cardinality(InsideSemaphore) <= max_concurrent)
  /\ \A i \in 1..MaxUrls : <>(i > Len(urls) \/ Acquired(i))

\* the tasks whose download_one has returned its result dict
Returned == {i \in 1..Len(tasks) : tasks[i].pc = "done"}

\* C21: download_one makes at least 1 and at most MAX_RETRIES attempts; it
\* returns success=True exactly when its last attempt downloaded a valid PDF,
\* every attempt before it having failed, and success=False only after
\* MAX_RETRIES attempts have each failed with a handled error; a back-off wait
\* follows every failed attempt but the final one; once it has returned it
\* makes no further attempt.
C21_BoundedRetries ==
  /\ [](\A i \in 1..Len(tasks) :
          /\ tasks[i].attempt <= MAX_RETRIES
          /\ i \in Returned =>
               /\ 1 <= tasks[i].attempt
               /\ IF tasks[i].result.success
                  THEN /\ tasks[i].failed = tasks[i].attempt - 1
                       /\ tasks[i].sleeps = tasks[i].attempt - 1
                  ELSE /\ tasks[i].attempt = MAX_RETRIES
                       /\ tasks[i].failed = MAX_RETRIES
                       /\ tasks[i].sleeps = MAX_RETRIES - 1)
  /\ [][\A i \in Returned : i \in 1..Len(tasks') /\ tasks'[i] = tasks[i]]_vars

\* one download succeeded at its second attempt and another returned a failure
C21_Witness ==
  /\ \E i \in Returned : tasks[i].result.success /\ tasks[i].attempt = 2
  /\ \E i \in Returned : ~tasks[i].result.success

\* C23: whenever download_one returns success=False no file exists at its
\* destination path; whenever it returns success=True the file there begins
\* with the PDF magic bytes and holds at most MAX_FILE_SIZE bytes.
C23_DestinationFile ==
  \A i \in Returned :
    IF tasks[i].result.success
    THEN /\ dest_files[i].exists
         /\ dest_files[i].magic
         /\ dest_files[i].size <= MAX_FILE_SIZE
    ELSE ~dest_files[i].exists

\* a download of exactly MAX_FILE_SIZE bytes succeeded, and another one failed
\* with a last attempt that wrote a file that is not a PDF
C23_Witness ==
  /\ \E i \in Returned :
       tasks[i].result.success /\ dest_files[i].size = MAX_FILE_SIZE
  /\ \E i \in Returned :
       /\ ~tasks[i].result.success
       /\ tasks[i].result.error = "Downloaded file is not a valid PDF"

\* C24: in every result dict returned by download_one, success=True implies
\* error is None and success=False implies error is a failure description,
\* also when an earlier attempt failed and a later retry succeeded.
C24_ErrorMatchesSuccess ==
  \A i \in Returned :
    IF tasks[i].result.success
    THEN tasks[i].result.error = None
    ELSE tasks[i].result.error # None

(***************************************************************************)
(* Properties of the scorer.                                               *)
(***************************************************************************)
YearsExtracted == spc = "years_done"

\* the text holds no explicit "N years of experience" statement
NoExplicitStatement == \A k \in 1..Len(text) : text[k].t # "explicit"

\* the valid (start_year, end_year) intervals found in the text
FoundIntervals ==
  { << text[k].start, IF text[k].end = <<>> THEN current_year ELSE text[k].end[1] >> :
      k \in {j \in 1..Len(text) : text[j].t = "range"} }

ValidIntervals ==
  { iv \in FoundIntervals :
      /\ 1970 <= iv[1] /\ iv[1] <= current_year
      /\ iv[1] <= iv[2] /\ iv[2] <= current_year + 1 }

\* the years y whose span from y to y + 1 lies in some interval of the set
CoveredYears(intervals) ==
  { y \in 1970..current_year : \E iv \in intervals : iv[1] <= y /\ y < iv[2] }

\* C22: without an explicit statement extract_years_of_experience returns
\* the length of the union of the valid intervals found, every year span
\* counted once however many ranges cover it, and None when there is no valid
\* interval or the length is 0; the merged intervals are in ascending order
\* and pairwise disjoint, they cover what the valid intervals cover, and the
\* result is the sum of their lengths.
C22_UnionOfIntervals ==
  (YearsExtracted /\ NoExplicitStatement) =>
    \A valid \in {ValidIntervals} :
      /\ \A n \in {Cardinality(CoveredYears(valid))} :
           years = IF n = 0 THEN <<>> ELSE <<n>>
      /\ valid # {} =>
           \A merged \in {Merged(text, current_year)} :
             /\ \A k \in 1..(Len(merged) - 1) : merged[k][2] < merged[k + 1][1]
             /\ \A k \in 1..Len(merged) : merged[k][1] <= merged[k][2]
             /\ CoveredYears(valid) =
                  CoveredYears({merged[k] : k \in 1..Len(merged)})
             /\ years = IF Total(merged) = 0 THEN <<>> ELSE << Total(merged) >>

\* a text with two ranges that overlap in part and a range apart from them:
\* two merged intervals, and a result less than the sum of the three lengths
C22_Witness ==
  /\ YearsExtracted
  /\ NoExplicitStatement
  /\ \E a, b \in ValidIntervals : a[1] < b[1] /\ b[1] < a[2] /\ a[2] < b[2]
  /\ Len(Merged(text, current_year)) = 2
  /\ years = <<11>>

\* process_resumes has written its output
OutputWritten == spc = "done"

\* the PDF files counted in total_resumes_scanned
CountedPdfs == {f \in DOMAIN resume_dir : IsPdfName(f)}

\* the entries of a list of the output that are about file f
EntriesOf(list, f) == {k \in 1..Len(list) : list[k].filename = f}

\* the years of experience detected in file f are known and exceed the
\* maximum of the job description, which is known too
Overqualified(f) ==
  \A max_yrs \in {extract_max_years_from_jd(jd_text)[2]} :
    \A detected \in {extract_years_of_experience(resume_dir[f], current_year)} :
      max_yrs # <<>> /\ detected # <<>> /\ detected[1] > max_yrs[1]

\* C25: in the output of process_resumes every PDF file counted in
\* total_resumes_scanned appears in exactly one of candidates and
\* excluded_overqualified, in excluded_overqualified exactly when the maximum
\* years of the job description and the detected years of the resume are both
\* known and the years exceed the maximum; so total_resumes_scanned =
\* total_after_exclusion + total_excluded.
C25_EveryPdfAccounted ==
  OutputWritten =>
    /\ \A f \in CountedPdfs :
         /\ Cardinality(EntriesOf(output_json[1].candidates, f)) +
              Cardinality(EntriesOf(output_json[1].excluded_overqualified, f)) = 1
         /\ EntriesOf(output_json[1].excluded_overqualified, f) # {} <=> Overqualified(f)
    /\ output_json[1].total_resumes_scanned =
         output_json[1].total_after_exclusion + output_json[1].total_excluded
====
